---------------------------- MODULE Spec2Model ----------------------------
(***************************************************************************)
(* InfraAgent: the output-parsing and validation layer and the CLI         *)
(* pipeline around it.                                                      *)
(*                                                                         *)
(* Text is a sequence of one-character strings, so that the regular        *)
(* expressions and the str methods of the source are computed character by *)
(* character.  A dict is a sequence of [k, v] records in insertion order.  *)
(***************************************************************************)
EXTENDS Integers, Sequences, FiniteSets, TLC

VARIABLES
  cmd,        \* the generator at work: "k8s", "terraform", "docker", "cicd"
  raw,        \* the raw output of the model
  pc,         \* the position in the code
  manifests,  \* the ArtifactSet: the dict _parse_output fills
  fallback,   \* whether the branch for an empty splitter result was taken
  once,       \* a text with its fences stripped
  twice,      \* the stripped text, stripped again
  result,     \* a ValidationResult
  op,         \* the last method called on result
  loaded,     \* what yaml.safe_load makes of the content under validation
  apiKey,     \* whether GEMINI_API_KEY is configured
  platform,   \* the --platform option of generate-cicd
  findings,   \* the ValidationResult of each artifact validated so far
  files,      \* the file system: path -> content
  written,    \* how many files save_outputs has written
  log,        \* the steps of the run, in order
  fault       \* the step that raised, "none" while none has

vars == <<cmd, raw, pc, manifests, fallback, once, twice, result, op, loaded,
          apiKey, platform, findings, files, written, log, fault>>

\* what a specification does not use stays as it starts
stripVars == <<once, twice>>
resultVars == <<result, op>>
loadVars == <<loaded>>
runVars == <<apiKey, platform, findings, files, written, log, fault>>
parseVars == <<manifests, fallback>>

-----------------------------------------------------------------------------
(* Python str and re primitives *)

Min(S) == CHOOSE x \in S : \A y \in S : x <= y
Max(S) == CHOOSE x \in S : \A y \in S : x >= y

\* str.isspace per character, the class \s of re
IsWs(c) == c \in {" ", "\n", "\t"}

UpperLetters == <<"A", "B", "C", "D", "E", "F", "G", "H", "I", "J", "K", "L", "M",
                  "N", "O", "P", "Q", "R", "S", "T", "U", "V", "W", "X", "Y", "Z">>
LowerLetters == <<"a", "b", "c", "d", "e", "f", "g", "h", "i", "j", "k", "l", "m",
                  "n", "o", "p", "q", "r", "s", "t", "u", "v", "w", "x", "y", "z">>
Digits == <<"0", "1", "2", "3", "4", "5", "6", "7", "8", "9">>

Range(f) == {f[i] : i \in DOMAIN f}

\* the class \w of re
IsWord(c) == c \in Range(UpperLetters) \cup Range(LowerLetters) \cup Range(Digits) \cup {"_"}

LowerChar(c) ==
  IF c \in Range(UpperLetters)
  THEN LowerLetters[CHOOSE i \in DOMAIN UpperLetters : UpperLetters[i] = c]
  ELSE c

\* str.lower
Lower(s) == [i \in DOMAIN s |-> LowerChar(s[i])]

RECURSIVE LStrip(_)
LStrip(s) == IF s # <<>> /\ IsWs(Head(s)) THEN LStrip(Tail(s)) ELSE s

RECURSIVE RStrip(_)
RStrip(s) == IF s # <<>> /\ IsWs(s[Len(s)]) THEN RStrip(SubSeq(s, 1, Len(s) - 1)) ELSE s

\* str.strip
Strip(s) == RStrip(LStrip(s))

\* pat occurs in s at (1-based) position p
StartsWithAt(s, pat, p) ==
  /\ p >= 1
  /\ p + Len(pat) - 1 <= Len(s)
  /\ SubSeq(s, p, p + Len(pat) - 1) = pat

\* str.startswith
StartsWith(s, pat) == StartsWithAt(s, pat, 1)

\* str.find from position p: the first occurrence, 0 when there is none
Find(s, pat, p) ==
  LET hits == {q \in p..(Len(s) - Len(pat) + 1) : StartsWithAt(s, pat, q)}
  IN IF hits = {} THEN 0 ELSE Min(hits)

\* pat in s
Contains(s, pat) == Find(s, pat, 1) # 0

\* str.replace(pat, '', 1): the first occurrence only
RemoveFirst(s, pat) ==
  LET q == Find(s, pat, 1)
  IN IF q = 0 THEN s ELSE SubSeq(s, 1, q - 1) \o SubSeq(s, q + Len(pat), Len(s))

\* str.replace(pat, ''): the leftmost non-overlapping occurrences are removed
\* in one pass; the text joined by a removal is not scanned again
RECURSIVE Remove(_, _)
Remove(s, pat) ==
  LET q == Find(s, pat, 1)
  IN IF q = 0 THEN s
     ELSE SubSeq(s, 1, q - 1) \o Remove(SubSeq(s, q + Len(pat), Len(s)), pat)

\* str.split(sep)
RECURSIVE Split(_, _)
Split(s, sep) ==
  LET q == Find(s, sep, 1)
  IN IF q = 0 THEN <<s>>
     ELSE <<SubSeq(s, 1, q - 1)>> \o Split(SubSeq(s, q + Len(sep), Len(s)), sep)

\* a count that only tells whether the character occurs
CountCharAtMostOne(s, c) == IF \E i \in DOMAIN s : s[i] = c THEN 1 ELSE 0

\* str.count of one character
CountChar(s, c) == Cardinality({i \in DOMAIN s : s[i] = c})

\* the first position >= p that holds no whitespace (Len(s) + 1 at the end)
WsRunEnd(s, p) == Min({q \in p..(Len(s) + 1) : q = Len(s) + 1 \/ ~IsWs(s[q])})

\* the first position >= p that holds whitespace (Len(s) + 1 at the end)
NonWsRunEnd(s, p) == Min({q \in p..(Len(s) + 1) : q = Len(s) + 1 \/ IsWs(s[q])})

\* the first position >= p that holds no word character
WordRunEnd(s, p) == Min({q \in p..(Len(s) + 1) : q = Len(s) + 1 \/ ~IsWord(s[q])})

\* str(n) of a non-negative integer
RECURSIVE IntToStr(_)
IntToStr(n) == IF n < 10 THEN <<Digits[n + 1]>> ELSE IntToStr(n \div 10) \o <<Digits[(n % 10) + 1]>>

-----------------------------------------------------------------------------
(* dict, in insertion order *)

Keys(d) == [i \in DOMAIN d |-> d[i].k]
HasKey(d, key) == \E i \in DOMAIN d : d[i].k = key
Get(d, key) == d[CHOOSE i \in DOMAIN d : d[i].k = key].v

\* DictSet with every assignment appended: a repeated key is stored twice
DictSetAppends(d, key, val) == Append(d, [k |-> key, v |-> val])

\* DictSet with the first value of a key kept
DictSetFirstWins(d, key, val) ==
  IF HasKey(d, key) THEN d ELSE Append(d, [k |-> key, v |-> val])

\* DictSet that moves a key already present to the end
DictSetMovesLast(d, key, val) ==
  Append(SelectSeq(d, LAMBDA it : it.k # key), [k |-> key, v |-> val])

\* d[key] = val: a new key is appended, a key already present keeps its position
DictSet(d, key, val) ==
  IF HasKey(d, key)
  THEN [i \in DOMAIN d |-> IF d[i].k = key THEN [k |-> key, v |-> val] ELSE d[i]]
  ELSE Append(d, [k |-> key, v |-> val])

-----------------------------------------------------------------------------
(* ValidationResult *)

\* a message: its text and the numbers formatted into it
Msg(text) == [text |-> text, args |-> <<>>]

\* ValidationResult.__init__
NewResult == [valid |-> TRUE, errors |-> <<>>, warnings |-> <<>>, suggestions |-> <<>>]

\* add_error that appends and leaves valid as it is
AddErrorKeepsValid(r, m) == [r EXCEPT !.errors = Append(@, m)]

\* ValidationResult.add_error
AddError(r, m) == [r EXCEPT !.valid = FALSE, !.errors = Append(@, m)]

\* add_warning with the effect of add_error
AddWarningAsError(r, m) == AddError(r, m)

\* ValidationResult.add_warning
AddWarning(r, m) == [r EXCEPT !.warnings = Append(@, m)]

\* ValidationResult.add_suggestion
AddSuggestion(r, m) == [r EXCEPT !.suggestions = Append(@, m)]

-----------------------------------------------------------------------------
(* literals of the source *)

\* The backquote character; SANY accepts no backquote inside a string
\* literal, so this one character is written by name.
BQ == "BACKQUOTE"

SEP == <<"-", "-", "-">>
FENCE == <<BQ, BQ, BQ>>
FENCE_YAML == <<BQ, BQ, BQ, "y", "a", "m", "l">>
FENCE_HCL == <<BQ, BQ, BQ, "h", "c", "l">>
FENCE_TERRAFORM == <<BQ, BQ, BQ, "t", "e", "r", "r", "a", "f", "o", "r", "m">>
FENCE_DOCKERFILE == <<BQ, BQ, BQ, "d", "o", "c", "k", "e", "r", "f", "i", "l", "e">>
FILE_PREFIX == <<"F", "I", "L", "E", ":">>
KIND_PREFIX == <<"k", "i", "n", "d", ":">>
YAML_SUFFIX == <<".", "y", "a", "m", "l">>
MANIFEST_PREFIX == <<"m", "a", "n", "i", "f", "e", "s", "t", "-">>
MAIN_TF == <<"m", "a", "i", "n", ".", "t", "f">>

-----------------------------------------------------------------------------
(* the file marker *)

\* file_pattern: three hyphens, whitespace, a line break, '#', whitespace,
\* 'FILE:', whitespace, a group of one or more non-whitespace characters,
\* whitespace, a line break.
\* The match of file_pattern that starts at p.  Each whitespace run is greedy,
\* and what follows it is either no whitespace (so it takes the whole run) or
\* a line break (so it takes the run up to the run's last line break).
MatchAt(s, p) ==
  LET a == p + 3
      b == WsRunEnd(s, a)
      d == WsRunEnd(s, b + 1)
      f == WsRunEnd(s, d + 5)
      g == NonWsRunEnd(s, f)
      h == WsRunEnd(s, g)
      nls == {q \in g..(h - 1) : s[q] = "\n"}
      ok == /\ StartsWithAt(s, SEP, p)
            /\ b > a
            /\ s[b - 1] = "\n"
            /\ b <= Len(s)
            /\ s[b] = "#"
            /\ StartsWithAt(s, FILE_PREFIX, d)
            /\ g > f
            /\ nls # {}
  IN IF ok
     THEN [ok |-> TRUE, start |-> p, end |-> Max(nls) + 1, group |-> SubSeq(s, f, g - 1)]
     ELSE [ok |-> FALSE, start |-> p, end |-> p, group |-> <<>>]

\* re.finditer: the non-overlapping matches from position p on, leftmost first
RECURSIVE Matches(_, _)
Matches(s, p) ==
  LET hits == {q \in p..Len(s) : MatchAt(s, q).ok}
  IN IF hits = {} THEN <<>>
     ELSE LET m == MatchAt(s, Min(hits)) IN <<m>> \o Matches(s, m.end)

\* re.split(file_pattern, output) with the pattern's one group:
\* [prefix, filename1, content1, filename2, content2, ...]
RECURSIVE SplitFrom(_, _, _)
SplitFrom(s, ms, p) ==
  IF ms = <<>> THEN <<SubSeq(s, p, Len(s))>>
  ELSE <<SubSeq(s, p, Head(ms).start - 1), Head(ms).group>> \o SplitFrom(s, Tail(ms), Head(ms).end)

ReSplit(s) == SplitFrom(s, Matches(s, 1), 1)

-----------------------------------------------------------------------------
(* fence stripping *)

\* content.replace(the yaml fence, '').replace(the bare fence, '').strip()
CleanYaml(s) == Strip(Remove(Remove(s, FENCE_YAML), FENCE))

\* content.replace(the hcl fence, '').replace(the terraform fence, '').replace(the bare fence, '').strip()
CleanHcl(s) == Strip(Remove(Remove(Remove(s, FENCE_HCL), FENCE_TERRAFORM), FENCE))

\* dockerfile.replace(the dockerfile fence, '').replace(the bare fence, '').strip()
CleanDockerfile(s) == Strip(Remove(Remove(s, FENCE_DOCKERFILE), FENCE))

\* pipeline.replace(the yaml fence, '').replace(the bare fence, '').strip()
CleanPipeline(s) == Strip(Remove(Remove(s, FENCE_YAML), FENCE))

-----------------------------------------------------------------------------
(* K8sGenerator._parse_output *)

\* PairGuard off by one: a pair is stored only when an element follows it
PairGuardNeedsNext(i, n) == i + 2 < n

\* whether the loop body stores the pair at Python index i of splits
PairGuard(i, n) == i + 1 < n

\* for i in range(1, len(splits), 2): the loop over the pairs; i is the
\* Python index, splits[i] of the source is splits[i + 1] here
RECURSIVE K8sSplitterLoop(_, _, _)
K8sSplitterLoop(splits, i, d) ==
  IF i >= Len(splits) THEN d
  ELSE IF PairGuard(i, Len(splits))
       THEN K8sSplitterLoop(splits, i + 2,
              DictSet(d, Strip(splits[i + 1]), CleanYaml(Strip(splits[i + 2]))))
       ELSE K8sSplitterLoop(splits, i + 2, d)

\* the splitter that keeps the text before the first marker as an entry
K8sSplitterKeepsPreamble(output) ==
  LET splits == ReSplit(output)
  IN K8sSplitterLoop(splits, 1,
       IF Strip(splits[1]) = <<>> THEN <<>>
       ELSE <<[k |-> <<"p", "r", "e", "a", "m", "b", "l", "e">>, v |-> CleanYaml(Strip(splits[1]))]>>)

K8sSplitter(output) == K8sSplitterLoop(ReSplit(output), 1, <<>>)

\* [doc.strip() for doc in output.split('---') if doc.strip()]
RECURSIVE StripAll(_)
StripAll(ss) == IF ss = <<>> THEN <<>> ELSE <<Strip(Head(ss))>> \o StripAll(Tail(ss))

NonEmpty(s) == s # <<>>

Docs(output) == SelectSeq(StripAll(Split(output, SEP)), NonEmpty)

\* re.search of 'kind:', whitespace, a group of word characters: group 1 of the first match, <<>> when
\* there is no match (a match's group holds at least one character)
KindSearch(doc) ==
  LET hits == {q \in 1..Len(doc) :
                 /\ StartsWithAt(doc, KIND_PREFIX, q)
                 /\ WordRunEnd(doc, WsRunEnd(doc, q + 5)) > WsRunEnd(doc, q + 5)}
  IN IF hits = {} THEN <<>>
     ELSE LET w == WsRunEnd(doc, Min(hits) + 5)
          IN SubSeq(doc, w, WordRunEnd(doc, w) - 1)

\* PositionalName without the index
PositionalNameUnnumbered(i) == MANIFEST_PREFIX \o YAML_SUFFIX

\* PositionalName with the 0-based enumerate index
PositionalNameZeroBased(i) == MANIFEST_PREFIX \o IntToStr(i) \o YAML_SUFFIX

\* f"manifest-{i+1}.yaml"
PositionalName(i) == MANIFEST_PREFIX \o IntToStr(i + 1) \o YAML_SUFFIX

\* the filename the fallback derives for docs[i] (i the enumerate index)
DerivedName(doc, i) ==
  LET kind == KindSearch(CleanYaml(doc))
  IN IF kind # <<>> THEN Lower(kind) \o YAML_SUFFIX ELSE PositionalName(i)

\* for i, doc in enumerate(docs): nothing in the try block raises on a str,
\* so the bare except is never entered
RECURSIVE FallbackLoop(_, _, _)
FallbackLoop(docs, i, d) ==
  IF i >= Len(docs) THEN d
  ELSE FallbackLoop(docs, i + 1,
         DictSet(d, DerivedName(docs[i + 1], i), CleanYaml(docs[i + 1])))

FallbackSegmenter(output) == FallbackLoop(Docs(output), 0, <<>>)

\* if not manifests: the fallback runs on an empty splitter result
K8sUsesFallback(output) == K8sSplitter(output) = <<>>

K8sParseOutput(output) ==
  IF K8sUsesFallback(output) THEN FallbackSegmenter(output) ELSE K8sSplitter(output)

-----------------------------------------------------------------------------
(* TerraformGenerator._parse_output *)

RECURSIVE TfSplitterLoop(_, _, _)
TfSplitterLoop(splits, i, d) ==
  IF i >= Len(splits) THEN d
  ELSE IF PairGuard(i, Len(splits))
       THEN TfSplitterLoop(splits, i + 2,
              DictSet(d, Strip(splits[i + 1]), CleanHcl(Strip(splits[i + 2]))))
       ELSE TfSplitterLoop(splits, i + 2, d)

TfSplitter(output) == TfSplitterLoop(ReSplit(output), 1, <<>>)

\* _parse_output that hands a text without markers to the document segmenter
TfParseOutputSegmenting(output) ==
  IF TfSplitter(output) = <<>>
  THEN FallbackSegmenter(output)
  ELSE TfSplitter(output)

\* TerraformGenerator._parse_output
TfParseOutput(output) ==
  IF TfSplitter(output) = <<>>
  THEN <<[k |-> MAIN_TF, v |-> CleanHcl(output)]>>
  ELSE TfSplitter(output)

-----------------------------------------------------------------------------
(* Python values, as yaml.safe_load returns them *)

\* t is the type; s holds the characters of a str; d holds the items of a
\* dict, and the elements of a list as its keys
PyNone == [t |-> "none", s |-> <<>>, d |-> <<>>]
PyInt == [t |-> "int", s |-> <<>>, d |-> <<>>]
PyStr(chars) == [t |-> "str", s |-> chars, d |-> <<>>]
PyList(elems) == [t |-> "list", s |-> <<>>, d |-> [i \in DOMAIN elems |-> [k |-> elems[i], v |-> PyNone]]]
PyDict(items) == [t |-> "dict", s |-> <<>>, d |-> items]

Returned(v) == [raised |-> FALSE, val |-> v]
Raised == [raised |-> TRUE, val |-> PyNone]

\* key in v: membership in a dict's keys or a list's elements, the substring
\* test on a str, TypeError on None and on a number
PyIn(key, v) ==
  CASE v.t \in {"dict", "list"} -> Returned(HasKey(v.d, key))
    [] v.t = "str" -> Returned(Contains(v.s, key))
    [] OTHER -> Raised

\* v[key]: the value of a dict's key; KeyError on a missing key, TypeError
\* on a str, a list, None and a number
PyGetItem(v, key) ==
  IF v.t = "dict" /\ HasKey(v.d, key) THEN Returned(Get(v.d, key)) ELSE Raised

\* v.get(key, default): AttributeError on anything but a dict
PyGet(v, key, default) ==
  IF v.t = "dict"
  THEN Returned(IF HasKey(v.d, key) THEN Get(v.d, key) ELSE default)
  ELSE Raised

\* v == "literal"
PyEqStr(v, chars) == v.t = "str" /\ v.s = chars

K_apiVersion == <<"a", "p", "i", "V", "e", "r", "s", "i", "o", "n">>
K_kind == <<"k", "i", "n", "d">>
K_metadata == <<"m", "e", "t", "a", "d", "a", "t", "a">>
K_name == <<"n", "a", "m", "e">>
K_spec == <<"s", "p", "e", "c">>
K_replicas == <<"r", "e", "p", "l", "i", "c", "a", "s">>
K_template == <<"t", "e", "m", "p", "l", "a", "t", "e">>
K_securityContext == <<"s", "e", "c", "u", "r", "i", "t", "y", "C", "o", "n", "t", "e", "x", "t">>
K_ports == <<"p", "o", "r", "t", "s">>
K_Deployment == <<"D", "e", "p", "l", "o", "y", "m", "e", "n", "t">>
K_Service == <<"S", "e", "r", "v", "i", "c", "e">>
PROVIDER_QUOTE == <<"p", "r", "o", "v", "i", "d", "e", "r", " ", "\"">>
TERRAFORM_BLOCK == <<"t", "e", "r", "r", "a", "f", "o", "r", "m", " ", "{">>
FROM == <<"F", "R", "O", "M">>
COPY == <<"C", "O", "P", "Y">>
RUN == <<"R", "U", "N">>
WORKDIR == <<"W", "O", "R", "K", "D", "I", "R">>
USER == <<"U", "S", "E", "R">>

-----------------------------------------------------------------------------
(* validators.py *)

\* the outcome of yaml.safe_load(content): a value, a yaml.YAMLError, or an
\* exception that is no YAMLError (the timestamp constructor's ValueError on
\* a date such as 2001-99-99, RecursionError on deep nesting)
Loaded(v) == [t |-> "ok", val |-> v]
LoadYamlError == [t |-> "yamlerror", val |-> PyNone]
LoadOtherError == [t |-> "fault", val |-> PyNone]

\* the result so far and whether an exception is on its way: out of a
\* statement of the try block, or out of a validator
Return(r) == [raised |-> FALSE, r |-> r]
Propagate(r) == [raised |-> TRUE, r |-> r]

\* validate_yaml_syntax: only yaml.YAMLError is caught
ValidateYamlSyntax(load) ==
  CASE load.t = "ok" -> Return(NewResult)
    [] load.t = "yamlerror" -> Return(AddError(NewResult, Msg("YAML syntax error")))
    [] OTHER -> Propagate(NewResult)

\* RequireKey as a branch of an elif chain: no error after an earlier one
RequireKeyOnce(st, container, key, msg) ==
  IF st.raised THEN st
  ELSE LET c == PyIn(key, container)
       IN IF c.raised THEN Propagate(st.r)
          ELSE IF ~c.val /\ st.r.valid THEN Return(AddError(st.r, msg)) ELSE st

\* if key not in container: result.add_error(msg)
RequireKey(st, container, key, msg) ==
  IF st.raised THEN st
  ELSE LET c == PyIn(key, container)
       IN IF c.raised THEN Propagate(st.r)
          ELSE IF ~c.val THEN Return(AddError(st.r, msg)) ELSE st

\* if "metadata" in manifest: if "name" not in manifest["metadata"]: ...
CheckMetadataName(st, manifest) ==
  IF st.raised THEN st
  ELSE LET c == PyIn(K_metadata, manifest)
       IN IF c.raised THEN Propagate(st.r)
          ELSE IF ~c.val THEN st
          ELSE LET md == PyGetItem(manifest, K_metadata)
               IN IF md.raised THEN Propagate(st.r)
                  ELSE RequireKey(st, md.val, K_name,
                                  Msg("Missing required field: metadata.name"))

\* CheckSpecKey that looks for the key in manifest.get("spec", {}) and never
\* tests for spec itself
CheckSpecKeyDefaultsSpec(st, manifest, missing, key, finding, asError) ==
  IF st.raised THEN st
  ELSE LET sp == PyGet(manifest, K_spec, PyDict(<<>>))
           k == IF sp.raised THEN Raised ELSE PyIn(key, sp.val)
       IN IF k.raised THEN Propagate(st.r)
          ELSE IF k.val THEN st
          ELSE IF asError THEN Return(AddError(st.r, finding))
          ELSE Return(AddWarning(st.r, finding))

\* if "spec" not in manifest: add_error(missing) / elif key not in
\* manifest["spec"]: the finding for the key (an error or a warning)
CheckSpecKey(st, manifest, missing, key, finding, asError) ==
  IF st.raised THEN st
  ELSE LET c == PyIn(K_spec, manifest)
       IN IF c.raised THEN Propagate(st.r)
          ELSE IF ~c.val THEN Return(AddError(st.r, missing))
          ELSE LET sp == PyGetItem(manifest, K_spec)
                   k == IF sp.raised THEN Raised ELSE PyIn(key, sp.val)
               IN IF k.raised THEN Propagate(st.r)
                  ELSE IF k.val THEN st
                  ELSE IF asError THEN Return(AddError(st.r, finding))
                  ELSE Return(AddWarning(st.r, finding))

\* if "spec" in manifest and "template" in manifest["spec"]:
\*     template_spec = manifest["spec"]["template"].get("spec", {})
\*     if "securityContext" not in template_spec: add_suggestion
CheckSecurityContext(st, manifest) ==
  IF st.raised THEN st
  ELSE LET c == PyIn(K_spec, manifest)
       IN IF c.raised THEN Propagate(st.r)
          ELSE IF ~c.val THEN st
          ELSE LET sp == PyGetItem(manifest, K_spec)
                   t == IF sp.raised THEN Raised ELSE PyIn(K_template, sp.val)
               IN IF t.raised THEN Propagate(st.r)
                  ELSE IF ~t.val THEN st
                  ELSE LET tpl == PyGetItem(sp.val, K_template)
                           ts == IF tpl.raised THEN Raised
                                 ELSE PyGet(tpl.val, K_spec, PyDict(<<>>))
                           sc == IF ts.raised THEN Raised
                                 ELSE PyIn(K_securityContext, ts.val)
                       IN IF sc.raised THEN Propagate(st.r)
                          ELSE IF sc.val THEN st
                          ELSE Return(AddSuggestion(st.r,
                                 Msg("Consider adding securityContext for pod security")))

\* kind = manifest.get("kind", ""), and the checks of the kind
CheckKind(st, manifest) ==
  IF st.raised THEN st
  ELSE LET kind == PyGet(manifest, K_kind, PyStr(<<>>))
       IN IF kind.raised THEN Propagate(st.r)
          ELSE IF PyEqStr(kind.val, K_Deployment)
          THEN CheckSecurityContext(
                 CheckSpecKey(st, manifest, Msg("Deployment missing spec field"),
                              K_replicas,
                              Msg("Deployment spec missing replicas (will default to 1)"),
                              FALSE),
                 manifest)
          ELSE IF PyEqStr(kind.val, K_Service)
          THEN CheckSpecKey(st, manifest, Msg("Service missing spec field"),
                            K_ports, Msg("Service spec missing ports"), TRUE)
          ELSE st

\* the try block of validate_kubernetes_manifest, lines 76-112
InspectManifest(manifest, r) ==
  LET s1 == RequireKey(Return(r), manifest, K_apiVersion, Msg("Missing required field: apiVersion"))
      s2 == RequireKey(s1, manifest, K_kind, Msg("Missing required field: kind"))
      s3 == RequireKey(s2, manifest, K_metadata, Msg("Missing required field: metadata"))
      s4 == CheckMetadataName(s3, manifest)
  IN CheckKind(s4, manifest)

\* validate_kubernetes_manifest without the except clause of its try block
ValidateKubernetesManifestUncaught(load) ==
  LET syntax == ValidateYamlSyntax(load)
  IN IF syntax.raised THEN syntax
     ELSE IF ~syntax.r.valid THEN syntax
     ELSE LET st == InspectManifest(load.val, syntax.r)
          IN IF st.raised THEN Propagate(st.r) ELSE Return(st.r)

\* validate_kubernetes_manifest
ValidateKubernetesManifest(load) ==
  LET syntax == ValidateYamlSyntax(load)
  IN IF syntax.raised THEN syntax
     ELSE IF ~syntax.r.valid THEN syntax
     ELSE LET st == InspectManifest(load.val, syntax.r)
          IN IF st.raised THEN Return(AddError(st.r, Msg("Validation error")))
             ELSE Return(st.r)

\* the emptiness test without the strip
IsEmptyContentUnstripped(content) == content = <<>>

\* not content.strip()
IsEmptyContent(content) == Strip(content) = <<>>

\* validate_terraform_syntax
ValidateTerraformSyntax(content) ==
  IF IsEmptyContent(content)
  THEN Return(AddError(NewResult, Msg("Empty Terraform file")))
  ELSE LET open_braces == CountChar(content, "{")
           close_braces == CountChar(content, "}")
           r1 == IF open_braces # close_braces
                 THEN AddError(NewResult, [text |-> "Unbalanced braces",
                                           args |-> <<open_braces, close_braces>>])
                 ELSE NewResult
           r2 == IF ~Contains(content, PROVIDER_QUOTE)
                 THEN AddWarning(r1, Msg("No provider block found")) ELSE r1
           r3 == IF ~Contains(content, TERRAFORM_BLOCK)
                 THEN AddSuggestion(r2, Msg("Consider adding terraform block with required_version"))
                 ELSE r2
       IN Return(r3)

\* lines = content.strip().split(line break)
Lines(content) == Split(Strip(content), <<"\n">>)

\* copy_index that stays at the first COPY line
CopyIndexFirst(lines) ==
  LET hits == {i \in DOMAIN lines : StartsWith(Strip(lines[i]), COPY)}
  IN IF hits = {} THEN -1 ELSE Min(hits) - 1

\* copy_index: the 0-based index of the last line that starts with COPY, -1
\* when there is none
CopyIndex(lines) ==
  LET hits == {i \in DOMAIN lines : StartsWith(Strip(lines[i]), COPY)}
  IN IF hits = {} THEN -1 ELSE Max(hits) - 1

\* run_index: the 0-based index of the first line that starts with RUN (and
\* not with COPY), -1 when there is none
RunIndex(lines) ==
  LET hits == {i \in DOMAIN lines : /\ ~StartsWith(Strip(lines[i]), COPY)
                                     /\ StartsWith(Strip(lines[i]), RUN)}
  IN IF hits = {} THEN -1 ELSE Min(hits) - 1

\* has_from that accepts FROM anywhere in a line
HasFromAnywhere(lines) == \E i \in DOMAIN lines : Contains(lines[i], FROM)

\* has_from: some line starts, once stripped, with FROM
HasFrom(lines) == \E i \in DOMAIN lines : StartsWith(Strip(lines[i]), FROM)

\* validate_dockerfile
ValidateDockerfile(content) ==
  LET lines == Lines(content)
      has_from == HasFrom(lines)
      r1 == IF ~has_from
            THEN AddError(NewResult, Msg("Dockerfile must start with FROM instruction"))
            ELSE NewResult
      r2 == IF ~Contains(content, WORKDIR)
            THEN AddSuggestion(r1, Msg("Consider using WORKDIR to set working directory"))
            ELSE r1
      r3 == IF ~Contains(content, USER)
            THEN AddSuggestion(r2, Msg("Consider adding USER instruction to run as non-root"))
            ELSE r2
      copy_index == CopyIndex(lines)
      run_index == RunIndex(lines)
      r4 == IF copy_index > -1 /\ run_index > -1 /\ copy_index > run_index
            THEN AddSuggestion(r3, Msg("Consider copying dependency files before RUN for better layer caching"))
            ELSE r3
  IN Return(r4)

-----------------------------------------------------------------------------
(* inputs *)

MaxChunks == 3

RECURSIVE Flatten(_)
Flatten(cs) == IF cs = <<>> THEN <<>> ELSE Head(cs) \o Flatten(Tail(cs))

\* every concatenation of at most n pieces of C
Texts(C, n) == {Flatten(cs) : cs \in UNION {[1..k -> C] : k \in 0..n}}

MARKER_A == <<"-", "-", "-", "\n", "#", " ", "F", "I", "L", "E", ":", " ", "a", "\n">>
MARKER_B == <<"-", "-", "-", "\n", "#", " ", "F", "I", "L", "E", ":", " ", "b", "\n">>
KIND_POD == <<"k", "i", "n", "d", ":", " ", "P", "o", "d">>
KIND_MANIFEST_1 == <<"k", "i", "n", "d", ":", " ", "m", "a", "n", "i", "f", "e", "s", "t", "-", "1">>

\* the pieces a raw output is made of: two whole markers, the separator, a
\* marker's second line, a line break, a blank, two kind lines that differ
\* in case only, a kind line that spells a positional name, a fence and a
\* letter
ParseChunks ==
  {MARKER_A, MARKER_B, SEP, <<"#", " ", "F", "I", "L", "E", ":", " ", "a", "\n">>, <<"\n">>, <<" ">>, KIND_POD, <<"k", "i", "n", "d", ":", " ", "p", "o", "d">>,
   KIND_MANIFEST_1, FENCE_YAML, <<"x">>}

\* the raw text of the fallback scenario: two documents, the second without kind
FALLBACK_EXAMPLE == <<"-", "-", "-", "\n", "k", "i", "n", "d", ":", " ", "P", "o", "d", "\n", "x", ":", " ", "1", "\n", "-", "-", "-", "\n", "y", ":", " ", "2">>

ParseInputs == Texts(ParseChunks, MaxChunks) \cup {FALLBACK_EXAMPLE}

-----------------------------------------------------------------------------
(* _parse_output as two steps: the splitter, then the branch on its result *)

StripIdle == once = <<>> /\ twice = <<>>
ResultIdle == result = NewResult /\ op = "new"
ParseIdle == manifests = <<>> /\ fallback = FALSE
LoadIdle == loaded = LoadYamlError
RunIdle ==
  /\ apiKey = TRUE /\ platform = "none" /\ findings = <<>> /\ files = <<>>
  /\ written = 0 /\ log = <<>> /\ fault = "none"

ParseInit ==
  /\ cmd \in {"k8s", "terraform"}
  /\ raw \in ParseInputs
  /\ pc = "output"
  /\ manifests = <<>>
  /\ fallback = FALSE
  /\ StripIdle
  /\ ResultIdle
  /\ LoadIdle
  /\ RunIdle

\* k8s_generator.py 62-77, terraform_generator.py 62-77
SplitStep ==
  /\ pc = "output"
  /\ manifests' = IF cmd = "k8s" THEN K8sSplitter(raw) ELSE TfSplitter(raw)
  /\ pc' = "split"
  /\ UNCHANGED <<cmd, raw, fallback, stripVars, resultVars, loadVars, runVars>>

\* k8s_generator.py 79-100
K8sFallbackStep ==
  /\ pc = "split"
  /\ cmd = "k8s"
  /\ fallback' = K8sUsesFallback(raw)
  /\ manifests' = K8sParseOutput(raw)
  /\ pc' = "parsed"
  /\ UNCHANGED <<cmd, raw, stripVars, resultVars, loadVars, runVars>>

\* terraform_generator.py 79-84
TfDefaultStep ==
  /\ pc = "split"
  /\ cmd = "terraform"
  /\ fallback' = (TfSplitter(raw) = <<>>)
  /\ manifests' = TfParseOutput(raw)
  /\ pc' = "parsed"
  /\ UNCHANGED <<cmd, raw, stripVars, resultVars, loadVars, runVars>>

ParseNext == SplitStep \/ K8sFallbackStep \/ TfDefaultStep

SpecParse == ParseInit /\ [][ParseNext]_vars

-----------------------------------------------------------------------------
(* the splitter and the fallback segmenter: claims *)

\* the filenames the markers of s declare, in marker order
MarkerNames(s) == LET ms == Matches(s, 1) IN [i \in DOMAIN ms |-> ms[i].group]

\* a sequence without its repetitions, each element at its first place
RECURSIVE FirstOccurrences(_)
FirstOccurrences(seq) ==
  IF seq = <<>> THEN <<>>
  ELSE LET init == FirstOccurrences(SubSeq(seq, 1, Len(seq) - 1))
           last == seq[Len(seq)]
       IN IF last \in Range(init) THEN init ELSE Append(init, last)

Distinct(seq) == \A i, j \in DOMAIN seq : seq[i] = seq[j] => i = j

\* the last marker of s ends the string: no content follows it
FinalMarkerBare(s) ==
  LET ms == Matches(s, 1) IN ms # <<>> /\ ms[Len(ms)].end > Len(s)

\* C1 as stated: N markers give N entries keyed by the declared filenames in
\* marker order, and N - 1 entries (the last marker dropped) when nothing
\* follows the final marker.
C1_Original ==
  pc = "split" =>
    LET names == MarkerNames(raw)
    IN IF FinalMarkerBare(raw)
       THEN Keys(manifests) = SubSeq(names, 1, Len(names) - 1)
       ELSE Keys(manifests) = names

\* C1 as amended: the splitter returns one entry per distinct declared
\* filename, in the order of each filename's first marker (N entries in marker
\* order when the N filenames are distinct); a final marker that nothing
\* follows is not dropped: its entry is kept, with empty content.
C1_SplitterEntries ==
  pc = "split" =>
    LET names == MarkerNames(raw)
    IN /\ Keys(manifests) = FirstOccurrences(names)
       /\ Distinct(names) => Keys(manifests) = names /\ Len(manifests) = Len(names)
       /\ FinalMarkerBare(raw) =>
            /\ HasKey(manifests, names[Len(names)])
            /\ Get(manifests, names[Len(names)]) = <<>>

\* two markers with distinct filenames, nothing after the second: two entries
C1_Witness ==
  /\ pc = "split"
  /\ Len(MarkerNames(raw)) = 2
  /\ Distinct(MarkerNames(raw))
  /\ FinalMarkerBare(raw)
  /\ Len(manifests) = 2

\* C8: in K8sGenerator._parse_output the fallback segmenter runs exactly when
\* the marker pattern matches nowhere in the raw output, and when a marker
\* matches every filename of the result is one a marker declares.
C8_FallbackIffNoMarker ==
  (cmd = "k8s" /\ pc = "parsed") =>
    LET names == MarkerNames(raw)
    IN /\ fallback <=> names = <<>>
       /\ names # <<>> => \A i \in DOMAIN manifests : manifests[i].k \in Range(names)

\* one marker that nothing follows: the marker matched, the splitter's entry
\* has empty content, and the fallback did not run
C8_Witness ==
  /\ cmd = "k8s"
  /\ pc = "parsed"
  /\ Len(MarkerNames(raw)) = 1
  /\ FinalMarkerBare(raw)
  /\ ~fallback
  /\ Len(manifests) = 1

POD_YAML == <<"p", "o", "d", ".", "y", "a", "m", "l">>
MANIFEST_2_YAML == <<"m", "a", "n", "i", "f", "e", "s", "t", "-", "2", ".", "y", "a", "m", "l">>

\* the filename C9 states for the fragment at 1-based position p
C9_Name(doc, p) ==
  LET kind == KindSearch(CleanYaml(doc))
  IN IF kind # <<>>
     THEN Lower(kind) \o YAML_SUFFIX
     ELSE MANIFEST_PREFIX \o IntToStr(p) \o YAML_SUFFIX

\* C9: in the fallback segmenter every non-empty fragment is stored under
\* its lowercased kind plus .yaml when the fence-stripped fragment has a kind
\* match, and under manifest-<p>.yaml (p its 1-based position among the
\* non-empty fragments) otherwise; the scenario of the specification yields
\* exactly pod.yaml and manifest-2.yaml.
C9_FallbackNames ==
  (cmd = "k8s" /\ pc = "parsed" /\ fallback) =>
    LET docs == Docs(raw)
    IN /\ \A p \in DOMAIN docs : HasKey(manifests, C9_Name(docs[p], p))
       /\ \A i \in DOMAIN manifests :
            \E p \in DOMAIN docs : manifests[i].k = C9_Name(docs[p], p)
       /\ raw = FALLBACK_EXAMPLE => Keys(manifests) = <<POD_YAML, MANIFEST_2_YAML>>

\* the scenario of the specification has been segmented
C9_Witness ==
  /\ cmd = "k8s"
  /\ pc = "parsed"
  /\ fallback
  /\ raw = FALLBACK_EXAMPLE
  /\ Len(manifests) = 2

\* C10: the fallback segmenter returns for every raw output without markers;
\* its entries are the filenames derived from the non-empty fragments, one
\* entry per derived filename, and an entry holds the fence-stripped content
\* of the last fragment that derives its filename.
C10_FallbackLastWins ==
  (cmd = "k8s" /\ pc = "parsed" /\ fallback) =>
    LET docs == Docs(raw)
        names == [p \in DOMAIN docs |-> C9_Name(docs[p], p)]
    IN /\ Keys(manifests) = FirstOccurrences(names)
       /\ \A p \in DOMAIN docs :
            (\A q \in DOMAIN docs : q > p => names[q] # names[p])
              => Get(manifests, names[p]) = CleanYaml(docs[p])

\* two fragments whose kinds differ in case only: one entry, the later content
C10_Witness ==
  /\ cmd = "k8s"
  /\ pc = "parsed"
  /\ fallback
  /\ Len(Docs(raw)) = 2
  /\ Docs(raw)[1] # Docs(raw)[2]
  /\ Len(manifests) = 1
  /\ manifests[1].v = CleanYaml(Docs(raw)[2])

-----------------------------------------------------------------------------
(* fence stripping, applied to its own output *)

MaxFenceChunks == 3


\* the pieces of a fenced text: one backquote, the bare fence, the tagged
\* fences, a tagged fence cut in two, a blank and a letter
FenceChunks ==
  {<<BQ>>, FENCE, FENCE_YAML, <<BQ, BQ, BQ, "y", "a">>, <<"m", "l">>, FENCE_HCL, FENCE_TERRAFORM,
   FENCE_DOCKERFILE, <<" ">>, <<"x">>}

FenceInputs == Texts(FenceChunks, MaxFenceChunks)

\* the fence-stripping step of each generator: k8s_generator.py 75,
\* terraform_generator.py 75, docker_generator.py 31, cicd_generator.py 33
Clean(c, s) ==
  CASE c = "k8s" -> CleanYaml(s)
    [] c = "terraform" -> CleanHcl(s)
    [] c = "docker" -> CleanDockerfile(s)
    [] c = "cicd" -> CleanPipeline(s)

StripInit ==
  /\ cmd \in {"k8s", "terraform", "docker", "cicd"}
  /\ raw \in FenceInputs
  /\ pc = "text"
  /\ StripIdle
  /\ ParseIdle
  /\ ResultIdle
  /\ LoadIdle
  /\ RunIdle

StripOnce ==
  /\ pc = "text"
  /\ once' = Clean(cmd, raw)
  /\ pc' = "stripped"
  /\ UNCHANGED <<cmd, raw, twice, parseVars, resultVars, loadVars, runVars>>

StripAgain ==
  /\ pc = "stripped"
  /\ twice' = Clean(cmd, once)
  /\ pc' = "restripped"
  /\ UNCHANGED <<cmd, raw, once, parseVars, resultVars, loadVars, runVars>>

StripNext == StripOnce \/ StripAgain

SpecStrip == StripInit /\ [][StripNext]_vars

\* C7: stripping the fences of a text that has had its fences stripped
\* changes nothing, for each of the four generators' steps.
C7_StripIdempotent == pc = "restripped" => twice = once

\* a text with a tagged fence cut by another fence: the first pass removes
\* characters, leaves some, and the second pass has run
C7_Witness ==
  /\ pc = "restripped"
  /\ Contains(raw, FENCE)
  /\ once # raw
  /\ once # <<>>
  /\ twice = once

-----------------------------------------------------------------------------
(* ValidationResult under any sequence of its methods *)

MaxMessages == 3

Messages == {Msg("m1"), Msg("m2")}

Size(r) == Len(r.errors) + Len(r.warnings) + Len(r.suggestions)

ResultInit ==
  /\ cmd = "none"
  /\ raw = <<>>
  /\ pc = "result"
  /\ result = NewResult
  /\ op = "new"
  /\ ParseIdle
  /\ StripIdle
  /\ LoadIdle
  /\ RunIdle

CallAddError ==
  /\ Size(result) < MaxMessages
  /\ \E m \in Messages : result' = AddError(result, m)
  /\ op' = "add_error"
  /\ UNCHANGED <<cmd, raw, pc, parseVars, stripVars, loadVars, runVars>>

CallAddWarning ==
  /\ Size(result) < MaxMessages
  /\ \E m \in Messages : result' = AddWarning(result, m)
  /\ op' = "add_warning"
  /\ UNCHANGED <<cmd, raw, pc, parseVars, stripVars, loadVars, runVars>>

CallAddSuggestion ==
  /\ Size(result) < MaxMessages
  /\ \E m \in Messages : result' = AddSuggestion(result, m)
  /\ op' = "add_suggestion"
  /\ UNCHANGED <<cmd, raw, pc, parseVars, stripVars, loadVars, runVars>>

ResultNext == CallAddError \/ CallAddWarning \/ CallAddSuggestion

SpecResult == ResultInit /\ [][ResultNext]_vars

\* C3: from a fresh result and after any calls, valid holds exactly when
\* errors is empty; add_warning and add_suggestion change neither valid nor
\* errors; an invalid result stays invalid.
C3_ValidIffNoErrors ==
  /\ [](result.valid <=> result.errors = <<>>)
  /\ [][(op' \in {"add_warning", "add_suggestion"}) =>
           (result'.valid = result.valid /\ result'.errors = result.errors)]_vars
  /\ [][(~result.valid) => (~result'.valid)]_vars

\* an error, then a warning: still invalid, the one error kept
C3_Witness ==
  /\ op = "add_warning"
  /\ ~result.valid
  /\ Len(result.errors) = 1
  /\ Len(result.warnings) = 1

-----------------------------------------------------------------------------
(* the validators on their inputs *)

MaxValidatorChunks == 3

Entry(key, val) == <<[k |-> key, v |-> val]>>
Opt(present, key, val) == IF present THEN Entry(key, val) ELSE <<>>

TEXT_X == <<"x">>

\* values of metadata
MetadataValues ==
  {PyNone, PyInt, PyStr(TEXT_X), PyStr(K_name), PyList(<<K_name>>),
   PyDict(<<>>), PyDict(Entry(K_name, PyStr(TEXT_X)))}

\* values of spec.template.spec
TemplateSpecValues ==
  {PyNone, PyStr(K_securityContext), PyDict(<<>>),
   PyDict(Entry(K_securityContext, PyDict(<<>>)))}

\* values of spec.template
TemplateValues ==
  {PyNone, PyDict(<<>>)} \cup {PyDict(Entry(K_spec, ts)) : ts \in TemplateSpecValues}

\* values of spec
SpecValues ==
  {PyNone, PyInt, PyStr(K_template), PyStr(K_ports)} \cup
  {PyDict(Opt(r, K_replicas, PyInt) \o Opt(p, K_ports, PyList(<<>>)) \o t) :
     r \in BOOLEAN, p \in BOOLEAN,
     t \in {<<>>} \cup {Entry(K_template, tv) : tv \in TemplateValues}}

\* values of kind
KindValues == {PyNone, PyStr(K_Deployment), PyStr(K_Service), PyStr(<<"P", "o", "d">>)}

\* documents that are mappings
Mappings ==
  {PyDict(Opt(a, K_apiVersion, PyStr(<<"v", "1">>)) \o k \o m \o sp) :
     a \in BOOLEAN,
     k \in {<<>>} \cup {Entry(K_kind, kv) : kv \in KindValues},
     m \in {<<>>} \cup {Entry(K_metadata, mv) : mv \in MetadataValues},
     sp \in {<<>>} \cup {Entry(K_spec, sv) : sv \in SpecValues}}

\* documents that are no mapping: the empty document, a number, a plain
\* scalar, a list
Scalars ==
  {PyNone, PyInt, PyStr(TEXT_X), PyStr(K_apiVersion), PyStr(K_kind \o K_metadata \o K_apiVersion),
   PyList(<<>>), PyList(<<K_apiVersion, K_kind, K_metadata>>)}

LoadOutcomes ==
  {LoadYamlError, LoadOtherError} \cup {Loaded(v) : v \in Mappings \cup Scalars}

TfChunks ==
  {<<"{">>, <<"}">>, <<" ">>, <<"\n">>, TEXT_X, PROVIDER_QUOTE, TERRAFORM_BLOCK}

TfInputs == Texts(TfChunks, MaxValidatorChunks)

FROM_LINE == <<"F", "R", "O", "M", " ", "a", "l", "p", "i", "n", "e", "\n">>

DockerChunks ==
  {FROM_LINE,
   <<"C", "O", "P", "Y", " ", ".", " ", ".", "\n">>,
   <<"R", "U", "N", " ", "m", "a", "k", "e", "\n">>,
   <<"W", "O", "R", "K", "D", "I", "R", " ", "/", "a", "p", "p", "\n">>,
   <<"U", "S", "E", "R", " ", "a", "p", "p", "\n">>,
   <<" ">>, TEXT_X}

DockerInputs == Texts(DockerChunks, MaxValidatorChunks)

ValidateInit ==
  /\ cmd \in {"k8s", "terraform", "docker"}
  /\ \/ cmd = "k8s" /\ raw = <<>> /\ loaded \in LoadOutcomes
     \/ cmd = "terraform" /\ raw \in TfInputs /\ LoadIdle
     \/ cmd = "docker" /\ raw \in DockerInputs /\ LoadIdle
  /\ pc = "validate"
  /\ ParseIdle
  /\ StripIdle
  /\ ResultIdle
  /\ RunIdle

\* the call returns its result, or the exception leaves the validator
Validated(v) ==
  /\ pc = "validate"
  /\ pc' = IF v.raised THEN "raised" ELSE "returned"
  /\ result' = IF v.raised THEN result ELSE v.r
  /\ UNCHANGED <<cmd, raw, op, parseVars, stripVars, loadVars, runVars>>

CallValidateKubernetesManifest ==
  cmd = "k8s" /\ Validated(ValidateKubernetesManifest(loaded))

CallValidateTerraformSyntax ==
  cmd = "terraform" /\ Validated(ValidateTerraformSyntax(raw))

CallValidateDockerfile ==
  cmd = "docker" /\ Validated(ValidateDockerfile(raw))

ValidateNext ==
  \/ CallValidateKubernetesManifest
  \/ CallValidateTerraformSyntax
  \/ CallValidateDockerfile

SpecValidate == ValidateInit /\ [][ValidateNext]_vars

\* C2: a validator always returns a result; whatever is wrong with the
\* content, no exception leaves it.
C2_ValidatorsNeverRaise == pc # "raised"

-----------------------------------------------------------------------------
(* one run of a CLI command *)

MaxRunChunks == 3

OUT == <<"o", "u", "t">>
DOCKERFILE == <<"D", "o", "c", "k", "e", "r", "f", "i", "l", "e">>
DOCKERIGNORE == <<".", "d", "o", "c", "k", "e", "r", "i", "g", "n", "o", "r", "e">>
DEPLOY_YML == <<".", "g", "i", "t", "h", "u", "b", "/", "w", "o", "r", "k", "f", "l", "o", "w", "s", "/", "d", "e", "p", "l", "o", "y", ".", "y", "m", "l">>
GITLAB_CI_YML == <<".", "g", "i", "t", "l", "a", "b", "-", "c", "i", ".", "y", "m", "l">>
GUIDE_MD == <<"I", "M", "P", "L", "E", "M", "E", "N", "T", "A", "T", "I", "O", "N", "_", "G", "U", "I", "D", "E", ".", "m", "d">>
PIPELINE_SUFFIX == <<"-", "p", "i", "p", "e", "l", "i", "n", "e">>

\* the fixed text save_output writes to .dockerignore, cut to its first lines
DOCKERIGNORE_TEXT == <<"#", " ", "G", "i", "t", "\n", ".", "g", "i", "t", "\n">>

PlatformText(p) == IF p = "github" THEN <<"g", "i", "t", "h", "u", "b">> ELSE <<"g", "i", "t", "l", "a", "b">>

\* os.path.join(a, b): b alone when it is absolute, else a and b with one
\* slash between them
PathJoin(a, b) ==
  IF b # <<>> /\ b[1] = "/" THEN b
  ELSE IF a = <<>> \/ a[Len(a)] = "/" THEN a \o b
  ELSE a \o <<"/">> \o b

\* the components of a path that remain once the empty and the . components
\* are dropped and each .. has taken back the component before it
RECURSIVE ResolveLoop(_, _, _)
ResolveLoop(parts, stack, absolute) ==
  IF parts = <<>> THEN stack
  ELSE LET c == Head(parts)
           n == Len(stack)
       IN IF c = <<>> \/ c = <<".">> THEN ResolveLoop(Tail(parts), stack, absolute)
          ELSE IF c # <<".", ".">> THEN ResolveLoop(Tail(parts), Append(stack, c), absolute)
          ELSE IF n > 0 /\ stack[n] # <<".", ".">>
          THEN ResolveLoop(Tail(parts), SubSeq(stack, 1, n - 1), absolute)
          ELSE IF absolute THEN ResolveLoop(Tail(parts), stack, absolute)
          ELSE ResolveLoop(Tail(parts), Append(stack, c), absolute)

\* the file open(path, 'w') opens: the path as the operating system resolves
\* it (no symbolic links)
Resolve(path) ==
  LET absolute == path # <<>> /\ path[1] = "/"
      parts == ResolveLoop(Split(path, <<"/">>), <<>>, absolute)
      joined == Flatten([i \in DOMAIN parts |-> IF i = 1 THEN parts[i] ELSE <<"/">> \o parts[i]])
  IN IF absolute THEN <<"/">> \o joined ELSE joined

\* what generate() hands to the command, as the dict the command passes on
\* to the guide: the ArtifactSet, or the one cleaned text under its name
Generated(c, p, text) ==
  CASE c = "k8s" -> K8sParseOutput(text)
    [] c = "terraform" -> TfParseOutput(text)
    [] c = "docker" -> Entry(DOCKERFILE, CleanDockerfile(text))
    [] OTHER -> Entry(PlatformText(p) \o PIPELINE_SUFFIX, CleanPipeline(text))

\* the files save_outputs / save_output writes, in order: path and content
SaveTargets(c, p, dir, generated) ==
  CASE c \in {"k8s", "terraform"} ->
         [i \in DOMAIN generated |->
            [k |-> PathJoin(dir, generated[i].k), v |-> generated[i].v]]
    [] c = "docker" ->
         <<[k |-> PathJoin(dir, DOCKERFILE), v |-> generated[1].v],
           [k |-> PathJoin(dir, DOCKERIGNORE), v |-> DOCKERIGNORE_TEXT]>>
    [] OTHER ->
         IF p = "github"
         THEN <<[k |-> PathJoin(dir, DEPLOY_YML), v |-> generated[1].v]>>
         ELSE <<[k |-> PathJoin(dir, GITLAB_CI_YML), v |-> generated[1].v]>>

\* the guide's list of generated files, one line per key of the dict; the
\* fixed sections of the guide are left out
Guide(generated) ==
  Flatten([i \in DOMAIN generated |-> <<"-", " ">> \o generated[i].k \o <<"\n">>])

FILE_A == MARKER_A \o KIND_POD \o <<"\n">>
MARKER_DOT_A == <<"-", "-", "-", "\n", "#", " ", "F", "I", "L", "E", ":", " ", ".", "/", "a", "\n">>
MARKER_UP == <<"-", "-", "-", "\n", "#", " ", "F", "I", "L", "E", ":", " ", ".", ".", "/", "b", "\n">>
POD_DOC == KIND_POD \o <<"\n">> \o SEP \o <<"\n">>

FILE_A_X == MARKER_A \o <<"x", "\n">>

RunChunks ==
  {FILE_A, FILE_A_X, MARKER_B, MARKER_UP, MARKER_DOT_A, POD_DOC, TEXT_X, FROM_LINE, <<"{">>}

\* the texts the model call can return, the empty string among them
RunOutputs == Texts(RunChunks, MaxRunChunks)

GOOD_POD ==
  PyDict(Entry(K_apiVersion, PyStr(<<"v", "1">>)) \o Entry(K_kind, PyStr(<<"P", "o", "d">>))
         \o Entry(K_metadata, PyDict(Entry(K_name, PyStr(TEXT_X)))))

\* what yaml.safe_load can make of an artifact's content: None of the empty
\* text; of any other text an error of either kind, None (a text of comments),
\* a plain scalar or a mapping
LoadsOf(content) ==
  IF content = <<>> THEN {Loaded(PyNone)}
  ELSE {LoadYamlError, LoadOtherError, Loaded(PyNone), Loaded(PyStr(TEXT_X)),
        Loaded(GOOD_POD)}

OLD_TEXT == <<"o", "l", "d">>

Event(e, path) == [e |-> e, k |-> path]

RunInit ==
  /\ cmd \in {"k8s", "terraform", "docker", "cicd"}
  /\ platform \in (IF cmd = "cicd" THEN {"github", "gitlab"} ELSE {"none"})
  /\ apiKey \in BOOLEAN
  /\ files \in {<<>>, Entry(PathJoin(OUT, <<"a">>), OLD_TEXT)}
  /\ raw = <<>>
  /\ pc = "start"
  /\ findings = <<>>
  /\ written = 0
  /\ log = <<>>
  /\ fault = "none"
  /\ ParseIdle
  /\ StripIdle
  /\ ResultIdle
  /\ LoadIdle

idleVars == <<fallback, stripVars, resultVars, loadVars, cmd, platform, apiKey>>

\* except Exception: echo the error, raise click.Abort()
Abort(step) ==
  /\ pc' = "aborted"
  /\ fault' = step
  /\ log' = Append(log, Event("abort", <<>>))

Step(next, e) ==
  /\ pc' = next
  /\ log' = Append(log, Event(e, <<>>))
  /\ UNCHANGED fault

\* generator = XGenerator(): GeminiClient() raises without an API key
ConstructGenerator ==
  /\ pc = "start"
  /\ IF apiKey THEN Step("call", "client") ELSE Abort("client")
  /\ UNCHANGED <<raw, manifests, findings, files, written, idleVars>>

\* self.client.generate_*(requirements): the call raises, or returns a text
ModelCall ==
  /\ pc = "call"
  /\ \/ Abort("model") /\ UNCHANGED raw
     \/ \E text \in RunOutputs : raw' = text /\ Step("parse", "model")
  /\ UNCHANGED <<manifests, findings, files, written, idleVars>>

\* _parse_output(raw_output), or the fence stripping of docker and cicd
ParseOutput ==
  /\ pc = "parse"
  /\ manifests' = Generated(cmd, platform, raw)
  /\ Step("validate", "split")
  /\ UNCHANGED <<raw, findings, files, written, idleVars>>

\* generate() that gives up on an artifact with errors
StopsOnInvalid(r) == ~r.valid

\* whether generate() stops on a result: it prints the errors and the
\* warnings and goes on to the next artifact
StopsOn(r) == FALSE

\* the validator of the command on the next artifact; generate-cicd has none
ValidateArtifact ==
  /\ pc = "validate"
  /\ cmd # "cicd"
  /\ Len(findings) < Len(manifests)
  /\ LET a == manifests[Len(findings) + 1]
     IN \E v \in (CASE cmd = "k8s" -> {ValidateKubernetesManifest(l) : l \in LoadsOf(a.v)}
                    [] cmd = "terraform" -> {ValidateTerraformSyntax(a.v)}
                    [] OTHER -> {ValidateDockerfile(a.v)}) :
          IF v.raised
          THEN Abort("validator") /\ UNCHANGED findings
          ELSE IF StopsOn(v.r)
          THEN /\ pc' = "aborted"
               /\ log' = Append(log, Event("stop", a.k))
               /\ UNCHANGED <<fault, findings>>
          ELSE /\ findings' = Append(findings, [k |-> a.k, v |-> v.r])
               /\ log' = Append(log, Event("validate", a.k))
               /\ UNCHANGED <<pc, fault>>
  /\ UNCHANGED <<raw, manifests, files, written, idleVars>>

\* generate() that can return before the loop has reached every artifact
GenerateReturnsEarly ==
  /\ pc = "validate"
  /\ Step("makedirs", "return")
  /\ UNCHANGED <<raw, manifests, findings, files, written, idleVars>>

\* return manifests
GenerateReturns ==
  /\ pc = "validate"
  /\ cmd = "cicd" \/ Len(findings) = Len(manifests)
  /\ Step("makedirs", "return")
  /\ UNCHANGED <<raw, manifests, findings, files, written, idleVars>>

\* os.makedirs(output_dir, exist_ok=True)
MakeDirs ==
  /\ pc = "makedirs"
  /\ Step("write", "makedirs") \/ Abort("makedirs")
  /\ UNCHANGED <<raw, manifests, findings, files, written, idleVars>>

\* with open(filepath, 'w') as f: f.write(content). open can fail and leave
\* the path as it was; write can fail after open has truncated the file
WriteArtifact ==
  /\ pc = "write"
  /\ LET targets == SaveTargets(cmd, platform, OUT, manifests)
     IN /\ written < Len(targets)
        /\ LET t == targets[written + 1]
           IN \/ /\ files' = DictSet(files, Resolve(t.k), t.v)
                 /\ written' = written + 1
                 /\ log' = Append(log, Event("write", t.k))
                 /\ UNCHANGED <<pc, fault>>
              \/ Abort("write") /\ UNCHANGED <<files, written>>
              \/ Abort("write") /\ files' = DictSet(files, Resolve(t.k), <<>>) /\ UNCHANGED written
  /\ UNCHANGED <<raw, manifests, findings, idleVars>>

\* save_outputs returns
SaveReturns ==
  /\ pc = "write"
  /\ written = Len(SaveTargets(cmd, platform, OUT, manifests))
  /\ Step("guide", "saved")
  /\ UNCHANGED <<raw, manifests, findings, files, written, idleVars>>

\* generate_implementation_guide and save_guide
WriteGuide ==
  /\ pc = "guide"
  /\ LET path == PathJoin(OUT, GUIDE_MD)
     IN \/ /\ files' = DictSet(files, path, Guide(manifests))
           /\ pc' = "report"
           /\ log' = Append(log, Event("guide", path))
           /\ UNCHANGED fault
        \/ Abort("guide") /\ UNCHANGED files
        \/ Abort("guide") /\ files' = DictSet(files, path, <<>>)
  /\ UNCHANGED <<raw, manifests, findings, written, idleVars>>

\* the SUCCESS banner and the list of generated files
ReportSuccess ==
  /\ pc = "report"
  /\ Step("done", "success")
  /\ UNCHANGED <<raw, manifests, findings, files, written, idleVars>>

RunNext ==
  \/ ConstructGenerator
  \/ ModelCall
  \/ ParseOutput
  \/ ValidateArtifact
  \/ GenerateReturns
  \/ MakeDirs
  \/ WriteArtifact
  \/ SaveReturns
  \/ WriteGuide
  \/ ReportSuccess

SpecCli == RunInit /\ [][RunNext]_vars

HasEvent(e) == \E i \in DOMAIN log : log[i].e = e

GuidePath == PathJoin(OUT, GUIDE_MD)

\* the paths save_outputs has opened and written so far, in order
WrittenPaths == SelectSeq([i \in DOMAIN log |-> log[i]], LAMBDA ev : ev.e = "write")

\* C4: when the model call fails or returns the empty string, the run ends
\* as a failure: it does not report success, and it writes no file.
C4_FailedOrEmptyCallFails ==
  (fault = "model" \/ (HasEvent("model") /\ raw = <<>>)) =>
    (pc # "done" /\ written = 0 /\ ~HasEvent("guide"))

\* C5: once the model output is split into artifacts, generate() returns
\* them: a run that has split the output and ended on the abort path got as
\* far as save_outputs, whatever the validators found.
C5_ValidationNeverStops ==
  (pc = "aborted" /\ HasEvent("split")) => HasEvent("return")

-----------------------------------------------------------------------------
(* the splitter on repeated filenames *)

\* the text between the end of marker p of s and the next marker, or the end
\* of s
MarkerContent(s, p) ==
  LET ms == Matches(s, 1)
  IN SubSeq(s, ms[p].end, IF p < Len(ms) THEN ms[p + 1].start - 1 ELSE Len(s))

\* the markers of s that declare the filename of marker p
SameName(s, p) == {q \in DOMAIN MarkerNames(s) : MarkerNames(s)[q] = MarkerNames(s)[p]}

\* C11: when several markers of a raw output declare one filename, the
\* splitter returns (it raises nothing) and its result holds exactly one
\* entry for that filename, with the fence-stripped, trimmed content that
\* follows the last of those markers.
C11_RepeatedNameLastWins ==
  pc = "split" =>
    \A p \in DOMAIN MarkerNames(raw) :
      Cardinality(SameName(raw, p)) > 1 =>
        /\ Cardinality({i \in DOMAIN manifests : manifests[i].k = MarkerNames(raw)[p]}) = 1
        /\ Get(manifests, MarkerNames(raw)[p]) =
             Clean(cmd, Strip(MarkerContent(raw, Max(SameName(raw, p)))))

\* one filename declared twice, with different content after each marker
C11_Witness ==
  /\ pc = "split"
  /\ Len(MarkerNames(raw)) = 2
  /\ Cardinality(SameName(raw, 1)) = 2
  /\ Strip(MarkerContent(raw, 1)) # Strip(MarkerContent(raw, 2))
  /\ Len(manifests) = 1
  /\ manifests[1].v = Strip(MarkerContent(raw, 2))

-----------------------------------------------------------------------------
(* save_outputs *)

\* the resolved path lies below the directory
Inside(dir, path) == StartsWith(Resolve(path), Resolve(dir) \o <<"/">>)

\* C12: once save_outputs of generate-k8s or generate-terraform has
\* returned, it has written one file per entry of the ArtifactSet, every
\* file it wrote lies inside output_dir, and each file holds its entry's
\* content, whatever file was there before.
C12_SavedInsideOutputDir ==
  (cmd \in {"k8s", "terraform"} /\ HasEvent("saved")) =>
    /\ Len(WrittenPaths) = Len(manifests)
    /\ \A i \in DOMAIN manifests :
         /\ WrittenPaths[i].k = PathJoin(OUT, manifests[i].k)
         /\ Inside(OUT, WrittenPaths[i].k)
         /\ \A j \in DOMAIN manifests :
              Resolve(WrittenPaths[i].k) = Resolve(WrittenPaths[j].k) => i = j
         /\ (pc = "guide" => Get(files, Resolve(WrittenPaths[i].k)) = manifests[i].v)

\* C13: when the write of the k-th artifact fails in save_outputs, the run
\* takes the abort path, the k-1 files written before it are on disk with
\* their new content, and no later artifact has been written.
C13_NoRollback ==
  (cmd \in {"k8s", "terraform"} /\ pc = "aborted" /\ fault = "write") =>
    /\ Len(WrittenPaths) = written
    /\ written < Len(manifests)
    /\ \A i \in 1..written :
         /\ WrittenPaths[i].k = PathJoin(OUT, manifests[i].k)
         /\ HasKey(files, Resolve(WrittenPaths[i].k))
         /\ Get(files, Resolve(WrittenPaths[i].k)) = manifests[i].v

-----------------------------------------------------------------------------
(* validate_terraform_syntax *)

WhitespaceOnly(s) == \A i \in DOMAIN s : IsWs(s[i])

Occurrences(s, c) == Cardinality({i \in DOMAIN s : s[i] = c})

BraceErrors(r) == {i \in DOMAIN r.errors : r.errors[i].text = "Unbalanced braces"}

\* C14: on an empty or whitespace-only input validate_terraform_syntax
\* returns valid = false with the one error 'Empty Terraform file' and no
\* warning and no suggestion: the brace, provider and terraform-block checks
\* add nothing.
C14_EmptyTerraform ==
  (cmd = "terraform" /\ pc # "validate" /\ WhitespaceOnly(raw)) =>
    /\ pc = "returned"
    /\ result = [valid |-> FALSE, errors |-> <<Msg("Empty Terraform file")>>,
                 warnings |-> <<>>, suggestions |-> <<>>]

\* a text of blanks and line breaks has been validated
C14_Witness ==
  /\ cmd = "terraform"
  /\ pc = "returned"
  /\ Len(raw) = 3
  /\ WhitespaceOnly(raw)
  /\ Len(result.errors) = 1

\* C15: on a non-empty input validate_terraform_syntax adds the brace
\* error exactly when the number of opening braces differs from the number of
\* closing braces, once, and the error carries both counts; equal counts never
\* get it, in whatever order the braces stand.
C15_BraceCounts ==
  (cmd = "terraform" /\ pc = "returned" /\ ~WhitespaceOnly(raw)) =>
    LET open == Occurrences(raw, "{")
        close == Occurrences(raw, "}")
    IN /\ open = close => BraceErrors(result) = {}
       /\ open # close =>
            /\ Cardinality(BraceErrors(result)) = 1
            /\ \A i \in BraceErrors(result) : result.errors[i].args = <<open, close>>

\* a closing brace before an opening one: equal counts, no brace error
C15_Witness ==
  /\ cmd = "terraform"
  /\ pc = "returned"
  /\ raw = <<"}", "{">>
  /\ result.valid

-----------------------------------------------------------------------------
(* validate_kubernetes_manifest *)

\* the validator has returned its result for a document that is a mapping
ReturnedForMapping ==
  cmd = "k8s" /\ pc = "returned" /\ loaded.t = "ok" /\ loaded.val.t = "dict"

\* the mapping holds the key with that text as its value
HasText(d, key, chars) == HasKey(d, key) /\ PyEqStr(Get(d, key), chars)

\* the mapping has apiVersion and a metadata mapping with a name
WellNamed(d) ==
  /\ HasKey(d, K_apiVersion)
  /\ HasKey(d, K_metadata)
  /\ Get(d, K_metadata).t = "dict"
  /\ HasKey(Get(d, K_metadata).d, K_name)

\* C16: a Service with apiVersion and metadata.name and without a spec key
\* gets exactly one error, the missing-spec error; no manifest without a spec
\* key gets the missing-ports error.
C16_ServiceWithoutSpec ==
  ReturnedForMapping =>
    LET d == loaded.val.d
    IN ~HasKey(d, K_spec) =>
         /\ \A i \in DOMAIN result.errors :
              result.errors[i] # Msg("Service spec missing ports")
         /\ (HasText(d, K_kind, K_Service) /\ WellNamed(d)) =>
              result = [valid |-> FALSE, errors |-> <<Msg("Service missing spec field")>>,
                        warnings |-> <<>>, suggestions |-> <<>>]

\* the Service of the scenario has been validated
C16_Witness ==
  /\ ReturnedForMapping
  /\ HasText(loaded.val.d, K_kind, K_Service)
  /\ WellNamed(loaded.val.d)
  /\ ~HasKey(loaded.val.d, K_spec)
  /\ result.errors = <<Msg("Service missing spec field")>>

-----------------------------------------------------------------------------
(* validate_dockerfile *)

\* the lines of the stripped text, cut at the line breaks, each one stripped
TrimmedLines(s) ==
  LET ls == Split(Strip(s), <<"\n">>) IN [i \in DOMAIN ls |-> Strip(ls[i])]

\* the positions of the lines that start with the keyword
LinesWith(s, keyword) ==
  {i \in DOMAIN TrimmedLines(s) : StartsWith(TrimmedLines(s)[i], keyword)}

CACHING == Msg("Consider copying dependency files before RUN for better layer caching")
NO_FROM == Msg("Dockerfile must start with FROM instruction")
NO_WORKDIR == Msg("Consider using WORKDIR to set working directory")
NO_USER == Msg("Consider adding USER instruction to run as non-root")

Has(msgs, m) == \E i \in DOMAIN msgs : msgs[i] = m

\* C17: validate_dockerfile gives the layer-caching suggestion exactly
\* when some line starts with COPY, some line starts with RUN and the last
\* COPY line comes after the first RUN line, whether or not there is a FROM
\* line: FROM, COPY, RUN gets none; RUN, COPY gets it.
C17_LayerCaching ==
  (cmd = "docker" /\ pc = "returned") =>
    LET copies == LinesWith(raw, COPY)
        runs == LinesWith(raw, RUN)
    IN Has(result.suggestions, CACHING) <=>
         (copies # {} /\ runs # {} /\ Max(copies) > Min(runs))

\* COPY, RUN, COPY without a FROM line: the first COPY precedes the RUN, the
\* last one follows it, and the suggestion is given
C17_Witness ==
  /\ cmd = "docker"
  /\ pc = "returned"
  /\ LinesWith(raw, COPY) = {1, 3}
  /\ LinesWith(raw, RUN) = {2}
  /\ LinesWith(raw, FROM) = {}
  /\ Has(result.suggestions, CACHING)

\* C18: validate_dockerfile returns valid = false exactly when no line
\* starts with FROM; the base-image error is then its only error, added
\* once, and the WORKDIR, USER and layer-caching rules run all the same.
C18_BaseImage ==
  (cmd = "docker" /\ pc = "returned") =>
    /\ result.valid <=> LinesWith(raw, FROM) # {}
    /\ result.errors = IF LinesWith(raw, FROM) = {} THEN <<NO_FROM>> ELSE <<>>
    /\ result.warnings = <<>>
    /\ Has(result.suggestions, NO_WORKDIR) <=> ~Contains(raw, WORKDIR)
    /\ Has(result.suggestions, NO_USER) <=> ~Contains(raw, USER)

\* a text that holds FROM, but not at the start of a line, and no WORKDIR
\* and no USER: the error and both suggestions
C18_Witness ==
  /\ cmd = "docker"
  /\ pc = "returned"
  /\ Contains(raw, FROM)
  /\ result.errors = <<NO_FROM>>
  /\ result.suggestions = <<NO_WORKDIR, NO_USER>>

SECURITY == Msg("Consider adding securityContext for pod security")

\* the value under the key when v is a mapping that has it, None otherwise
Child(v, key) == IF v.t = "dict" /\ HasKey(v.d, key) THEN Get(v.d, key) ELSE PyNone

\* v is a mapping with that key
HasChild(v, key) == v.t = "dict" /\ HasKey(v.d, key)

\* spec.template.spec of the document exists
TemplateSpecExists(doc) ==
  /\ HasChild(doc, K_spec)
  /\ HasChild(Child(doc, K_spec), K_template)
  /\ HasChild(Child(Child(doc, K_spec), K_template), K_spec)

\* C19: for a Deployment the securityContext suggestion is given exactly
\* when spec.template.spec exists and has no securityContext key; a template
\* without a nested spec gets no suggestion.
C19_SecurityContext ==
  (ReturnedForMapping /\ HasText(loaded.val.d, K_kind, K_Deployment)) =>
    LET doc == loaded.val
        ts == Child(Child(Child(doc, K_spec), K_template), K_spec)
    IN Has(result.suggestions, SECURITY) <=>
         (TemplateSpecExists(doc) /\ ~HasChild(ts, K_securityContext))

GENERIC == Msg("Validation error")
NO_API_VERSION == Msg("Missing required field: apiVersion")
NO_KIND == Msg("Missing required field: kind")
NO_METADATA == Msg("Missing required field: metadata")

\* a document on which the inspection hits a fault: it is no mapping, or its
\* metadata is null, or it is a Deployment or a Service whose spec is null
FaultCase(doc) ==
  \/ doc.t # "dict"
  \/ HasChild(doc, K_metadata) /\ Child(doc, K_metadata) = PyNone
  \/ /\ HasChild(doc, K_spec) /\ Child(doc, K_spec) = PyNone
     /\ HasText(doc.d, K_kind, K_Deployment) \/ HasText(doc.d, K_kind, K_Service)

\* the validator was called on a parsed document that makes the inspection fault
InspectionFaulted ==
  cmd = "k8s" /\ pc # "validate" /\ loaded.t = "ok" /\ FaultCase(loaded.val)

\* C20 as stated: after a fault of the inspection the result is invalid and
\* its errors are exactly the one generic entry.
C20_Original ==
  InspectionFaulted => (pc = "returned" /\ ~result.valid /\ result.errors = <<GENERIC>>)

\* C20 as amended: a fault of the inspection never leaves the validator; the
\* result is invalid and holds the generic entry once, as its last error,
\* after the errors found before the fault. The generic entry is the only
\* error when the document is null or a number; a list or a text that holds
\* none of the three field names gets the three missing-field errors first.
C20_FaultBecomesLastError ==
  InspectionFaulted =>
    LET errs == result.errors
        doc == loaded.val
    IN /\ pc = "returned"
       /\ ~result.valid
       /\ errs # <<>> /\ errs[Len(errs)] = GENERIC
       /\ Cardinality({i \in DOMAIN errs : errs[i] = GENERIC}) = 1
       /\ doc.t \in {"none", "int"} => errs = <<GENERIC>>
       /\ (doc.t \in {"list", "str"} /\ \A key \in {K_apiVersion, K_kind, K_metadata} :
                                           ~PyIn(key, doc).val)
            => errs = <<NO_API_VERSION, NO_KIND, NO_METADATA, GENERIC>>

\* an empty list as document: three missing fields, then the generic entry
C20_Witness ==
  /\ cmd = "k8s"
  /\ pc = "returned"
  /\ loaded = Loaded(PyList(<<>>))
  /\ result.errors = <<NO_API_VERSION, NO_KIND, NO_METADATA, GENERIC>>

-----------------------------------------------------------------------------
(* required fields and the checks of the kind *)

NO_NAME == Msg("Missing required field: metadata.name")
SERVICE_NO_SPEC == Msg("Service missing spec field")
DEPLOYMENT_NO_SPEC == Msg("Deployment missing spec field")
NO_PORTS == Msg("Service spec missing ports")
NO_REPLICAS == Msg("Deployment spec missing replicas (will default to 1)")

\* the message when the condition holds
When(cond, m) == IF cond THEN <<m>> ELSE <<>>

\* one error for each of the three top-level fields the mapping lacks
MissingFields(doc) ==
  When(~HasChild(doc, K_apiVersion), NO_API_VERSION)
    \o When(~HasChild(doc, K_kind), NO_KIND)
    \o When(~HasChild(doc, K_metadata), NO_METADATA)

\* metadata is present and does not hold name; a value on which the
\* membership test cannot be made holds nothing
MetadataWithoutName(doc) ==
  /\ HasChild(doc, K_metadata)
  /\ LET c == PyIn(K_name, Child(doc, K_metadata)) IN c.raised \/ ~c.val

\* the membership test can be made on the value: a mapping, a list, a text
Container(v) == v.t \in {"dict", "list", "str"}

\* seq begins with pre
Prefix(pre, seq) == Len(pre) <= Len(seq) /\ SubSeq(seq, 1, Len(pre)) = pre

\* the result shows that the check of the document's kind was made: the
\* finding of a Service or a Deployment without spec, or whose spec is a
\* mapping without ports or replicas
KindChecked(doc, r) ==
  /\ (HasText(doc.d, K_kind, K_Service) /\ ~HasChild(doc, K_spec))
       => Has(r.errors, SERVICE_NO_SPEC)
  /\ (HasText(doc.d, K_kind, K_Service) /\ Child(doc, K_spec).t = "dict"
        /\ ~HasChild(Child(doc, K_spec), K_ports))
       => Has(r.errors, NO_PORTS)
  /\ (HasText(doc.d, K_kind, K_Deployment) /\ ~HasChild(doc, K_spec))
       => Has(r.errors, DEPLOYMENT_NO_SPEC)
  /\ (HasText(doc.d, K_kind, K_Deployment) /\ Child(doc, K_spec).t = "dict"
        /\ ~HasChild(Child(doc, K_spec), K_replicas))
       => Has(r.warnings, NO_REPLICAS)

\* C21 as stated: every mapping gets one error for each absent top-level
\* field, the metadata.name error when metadata is present without name, and
\* the checks of its kind after them.
C21_Original ==
  ReturnedForMapping =>
    LET doc == loaded.val
    IN /\ Prefix(MissingFields(doc) \o When(MetadataWithoutName(doc), NO_NAME),
                 result.errors)
       /\ KindChecked(doc, result)

\* C21 as amended: every mapping gets, as its first errors, one error for
\* each absent top-level field. When metadata is absent or is a mapping, a
\* list or a text, the metadata.name error follows if metadata is present
\* and does not hold name, and the checks of the kind are made after these
\* errors. When metadata is null or a number the generic error follows the
\* missing-field errors and nothing else is added.
C21_RequiredFieldsCumulative ==
  ReturnedForMapping =>
    LET doc == loaded.val
        md == Child(doc, K_metadata)
    IN /\ Prefix(MissingFields(doc), result.errors)
       /\ (~HasChild(doc, K_metadata) \/ Container(md))
            => /\ Prefix(MissingFields(doc) \o When(MetadataWithoutName(doc), NO_NAME),
                         result.errors)
               /\ KindChecked(doc, result)
       /\ (HasChild(doc, K_metadata) /\ ~Container(md))
            => /\ result.errors = MissingFields(doc) \o <<GENERIC>>
               /\ result.warnings = <<>>
               /\ result.suggestions = <<>>

\* a Service without apiVersion, with a metadata mapping without name and a
\* spec without ports: three errors, the last one from the check of the kind
C21_Witness ==
  /\ ReturnedForMapping
  /\ HasText(loaded.val.d, K_kind, K_Service)
  /\ result.errors = <<NO_API_VERSION, NO_NAME, NO_PORTS>>

-----------------------------------------------------------------------------
(* severity of the findings of a kind *)

\* the findings that only the check of a kind makes
KindErrors == {SERVICE_NO_SPEC, DEPLOYMENT_NO_SPEC, NO_PORTS}

\* the document's spec is a mapping without that key
SpecLacks(doc, key) ==
  Child(doc, K_spec).t = "dict" /\ ~HasChild(Child(doc, K_spec), key)

\* the securityContext check faults on the spec: its template is no mapping,
\* or the template's spec is null or a number
TemplateFaults(sp) ==
  /\ HasChild(sp, K_template)
  /\ LET tpl == Child(sp, K_template)
     IN tpl.t # "dict" \/ (HasKey(tpl.d, K_spec) /\ ~Container(Get(tpl.d, K_spec)))

\* no finding comes from the check of a kind
NoKindFinding(r) ==
  /\ r.warnings = <<>>
  /\ r.suggestions = <<>>
  /\ \A i \in DOMAIN r.errors : r.errors[i] \notin KindErrors

\* a Service whose spec lacks ports is invalid by the ports error and has no
\* warning; a manifest of another kind or without kind has no finding of a kind
ServiceAndOtherKinds ==
  LET doc == loaded.val
  IN /\ (HasText(doc.d, K_kind, K_Service) /\ WellNamed(doc.d) /\ SpecLacks(doc, K_ports))
          => result = [valid |-> FALSE, errors |-> <<NO_PORTS>>,
                       warnings |-> <<>>, suggestions |-> <<>>]
     /\ (~HasText(doc.d, K_kind, K_Service) /\ ~HasText(doc.d, K_kind, K_Deployment))
          => NoKindFinding(result)

\* C22 as stated: a Deployment with the required fields whose spec lacks
\* replicas gets the warning and stays valid; a Service whose spec lacks
\* ports gets the error and is invalid; another kind gets no finding of a kind.
C22_Original ==
  ReturnedForMapping =>
    LET doc == loaded.val
    IN /\ (HasText(doc.d, K_kind, K_Deployment) /\ WellNamed(doc.d)
             /\ SpecLacks(doc, K_replicas))
            => /\ result.warnings = <<NO_REPLICAS>>
               /\ result.valid
       /\ ServiceAndOtherKinds

\* C22 as amended: the Deployment gets the warning and no error from the
\* replicas check; it stays valid unless the securityContext check that
\* follows faults on spec.template, and then the generic error is its only
\* error. The Service and the other kinds are as stated.
C22_SeverityByKind ==
  ReturnedForMapping =>
    LET doc == loaded.val
    IN /\ (HasText(doc.d, K_kind, K_Deployment) /\ WellNamed(doc.d)
             /\ SpecLacks(doc, K_replicas))
            => /\ result.warnings = <<NO_REPLICAS>>
               /\ result.valid <=> ~TemplateFaults(Child(doc, K_spec))
               /\ result.errors = When(TemplateFaults(Child(doc, K_spec)), GENERIC)
       /\ ServiceAndOtherKinds

\* a Deployment with the required fields and an empty spec: valid, one warning
C22_Witness ==
  /\ ReturnedForMapping
  /\ HasText(loaded.val.d, K_kind, K_Deployment)
  /\ WellNamed(loaded.val.d)
  /\ Child(loaded.val, K_spec) = PyDict(<<>>)
  /\ result = [valid |-> TRUE, errors |-> <<>>, warnings |-> <<NO_REPLICAS>>,
               suggestions |-> <<>>]

-----------------------------------------------------------------------------
(* the order of the steps of one run *)

\* the place of a step in the stated order
Rank(e) ==
  CASE e = "client" -> 0
    [] e = "model" -> 1
    [] e = "split" -> 2
    [] e = "validate" -> 3
    [] e = "return" -> 4
    [] e = "makedirs" -> 5
    [] e = "write" -> 6
    [] e = "saved" -> 7
    [] e = "guide" -> 8
    [] e = "success" -> 9
    [] OTHER -> 10

\* how many of the first n steps were the step e
Count(e, n) == Cardinality({i \in 1..n : log[i].e = e})

\* the steps of the run so far are in the stated order; only the validation
\* of an artifact and the write of a file happen more than once
InOrder ==
  \A i, j \in DOMAIN log :
    i < j => \/ Rank(log[i].e) < Rank(log[j].e)
             \/ log[i].e = log[j].e /\ log[i].e \in {"validate", "write"}

\* every file write comes after the model call, the split and the given
\* number of validations, and no file changes before save_outputs is called
WritesAfter(validations) ==
  /\ \A i \in DOMAIN log :
       log[i].e = "write" => /\ Count("model", i) = 1
                             /\ Count("split", i) = 1
                             /\ Count("validate", i) = validations
  /\ ~HasEvent("return") =>
       /\ written = 0
       /\ files \in {<<>>, Entry(PathJoin(OUT, <<"a">>), OLD_TEXT)}

\* the guide comes after every file write, and success after the guide
GuideThenSuccess ==
  /\ \A i \in DOMAIN log :
       /\ log[i].e = "guide" =>
            Count("write", i) = Len(SaveTargets(cmd, platform, OUT, manifests))
       /\ log[i].e = "success" => Count("guide", i) = 1
  /\ HasKey(files, GuidePath) => HasEvent("saved")

\* C23 as stated: in every run the steps are in the stated order, every
\* artifact is validated before the first file write, the guide is written
\* after all file writes and success is reported after the guide.
C23_Original == InOrder /\ WritesAfter(Len(manifests)) /\ GuideThenSuccess

\* C23 as amended: the same for generate-k8s, generate-terraform and
\* generate-docker; generate-cicd keeps the order and validates nothing.
C23_StepsInOrder ==
  /\ InOrder
  /\ WritesAfter(IF cmd = "cicd" THEN 0 ELSE Len(manifests))
  /\ GuideThenSuccess

\* a run of generate-k8s that validated two manifests, wrote them and the
\* guide, and reported success
C23_Witness ==
  /\ cmd = "k8s"
  /\ pc = "done"
  /\ Len(manifests) = 2
  /\ Count("validate", Len(log)) = 2
  /\ Count("write", Len(log)) = 2

-----------------------------------------------------------------------------
(* the fallback segmenter: positional names *)

\* the kind found in the fragment, <<>> when there is none
KindOf(doc) == KindSearch(CleanYaml(doc))

\* the positions of the fragments without a kind match
KindLess(docs) == {p \in DOMAIN docs : KindOf(docs[p]) = <<>>}

\* the lowercased kinds of the fragments with a kind match
LowerKinds(docs) == {Lower(KindOf(docs[p])) : p \in DOMAIN docs \ KindLess(docs)}

\* manifest-<p>.yaml
Positional(p) == MANIFEST_PREFIX \o IntToStr(p) \o YAML_SUFFIX

\* C24: in the fallback segmenter the positional name of a fragment without
\* kind differs from every kind-derived name and from every other positional
\* name; the fragment's entry holds its own content, and the entries are as
\* many as the fragments without kind plus the distinct lowercased kinds.
C24_PositionalNamesUnique ==
  (cmd = "k8s" /\ pc = "parsed" /\ fallback) =>
    LET docs == Docs(raw)
    IN /\ \A p \in KindLess(docs) :
            /\ \A kind \in LowerKinds(docs) : Positional(p) # kind \o YAML_SUFFIX
            /\ \A q \in KindLess(docs) : q # p => Positional(q) # Positional(p)
            /\ HasKey(manifests, Positional(p))
            /\ Get(manifests, Positional(p)) = CleanYaml(docs[p])
       /\ Len(manifests) = Cardinality(KindLess(docs)) + Cardinality(LowerKinds(docs))

\* a fragment without kind before one whose kind line spells manifest-1:
\* two entries, manifest-1.yaml and manifest.yaml
C24_Witness ==
  /\ cmd = "k8s"
  /\ pc = "parsed"
  /\ fallback
  /\ KindLess(Docs(raw)) = {1}
  /\ LowerKinds(Docs(raw)) = {<<"m", "a", "n", "i", "f", "e", "s", "t">>}
  /\ Keys(manifests) = <<Positional(1), <<"m", "a", "n", "i", "f", "e", "s", "t">> \o YAML_SUFFIX>>

-----------------------------------------------------------------------------
(* the empty ArtifactSet *)

\* every piece of s between its separators is empty or whitespace
NoFragment(s) ==
  \A i \in DOMAIN Split(s, SEP) : WhitespaceOnly(Split(s, SEP)[i])

\* C25: TerraformGenerator._parse_output never returns an empty set; for a
\* raw output without marker it returns the one entry main.tf with the
\* fence-stripped, trimmed output, separators left in place.
\* K8sGenerator._parse_output returns the empty set exactly when the raw
\* output has no marker and no fragment that is more than whitespace.
C25_EmptyArtifactSet ==
  pc = "parsed" =>
    IF cmd = "terraform"
    THEN /\ manifests # <<>>
         /\ MarkerNames(raw) = <<>> => manifests = Entry(MAIN_TF, CleanHcl(raw))
    ELSE manifests = <<>> <=> (MarkerNames(raw) = <<>> /\ NoFragment(raw))

\* a raw output of two fragments and no marker, parsed by the Terraform
\* generator: one entry, the separator inside its content
C25_Witness ==
  /\ cmd = "terraform"
  /\ pc = "parsed"
  /\ raw = <<"x">> \o SEP \o <<"x">>
  /\ manifests = Entry(MAIN_TF, raw)

-----------------------------------------------------------------------------
(* the text before the first marker *)

\* the text of s before its first marker
Preamble(s) == SubSeq(s, 1, Matches(s, 1)[1].start - 1)

\* s from its first marker on
FromFirstMarker(s) == SubSeq(s, Matches(s, 1)[1].start, Len(s))

\* _parse_output of the generator of the command
ParseOf(c, s) == IF c = "k8s" THEN K8sParseOutput(s) ELSE TfParseOutput(s)

\* C26: when the raw output has a marker, the text before the first marker
\* is discarded: the result is the result for the output without that text,
\* every filename is one a marker declares, and every content is the
\* fence-stripped, trimmed text between a marker of its filename and the
\* next marker or the end of the output.
C26_PreambleDiscarded ==
  (pc = "parsed" /\ MarkerNames(raw) # <<>>) =>
    /\ manifests = ParseOf(cmd, FromFirstMarker(raw))
    /\ \A i \in DOMAIN manifests :
         \E p \in DOMAIN MarkerNames(raw) :
           /\ manifests[i].k = MarkerNames(raw)[p]
           /\ manifests[i].v = Clean(cmd, MarkerContent(raw, p))

\* a kind line before the one marker: the only entry is the marker's
C26_Witness ==
  /\ cmd = "k8s"
  /\ pc = "parsed"
  /\ Len(MarkerNames(raw)) = 1
  /\ Preamble(raw) = KIND_POD
  /\ manifests = Entry(<<"a">>, <<"x">>)

-----------------------------------------------------------------------------
(* the order of the ArtifactSet *)

\* the last marker of s that declares the filename
LastMarker(s, name) == Max({q \in DOMAIN MarkerNames(s) : MarkerNames(s)[q] = name})

\* the guide's list for the filenames, one line each
GuideLines(names) ==
  Flatten([i \in DOMAIN names |-> <<"-", " ">> \o names[i] \o <<"\n">>])

\* the ArtifactSet right after _parse_output has returned it for a raw
\* output with markers
ParsedWithMarkers ==
  /\ pc = "validate"
  /\ findings = <<>>
  /\ cmd \in {"k8s", "terraform"}
  /\ Matches(raw, 1) # <<>>

\* C27: for a raw output with markers the ArtifactSet lists each filename at
\* the place of its first marker with the content of its last marker, which
\* is the order of the markers exactly when no filename is repeated;
\* validation, the file writes and the guide's list follow the order of the
\* ArtifactSet.
C27_FirstMarkerOrder ==
  /\ ParsedWithMarkers =>
       LET names == MarkerNames(raw)
           order == FirstOccurrences(names)
       IN /\ Keys(manifests) = order
          /\ \A i \in DOMAIN manifests :
               manifests[i].v = Clean(cmd, MarkerContent(raw, LastMarker(raw, order[i])))
          /\ order = names <=> Distinct(names)
  /\ cmd \in {"k8s", "terraform"} =>
       LET order == Keys(manifests)
           validated == Keys(findings)
           paths == Keys(WrittenPaths)
       IN /\ Prefix(validated, order)
          /\ \A i \in DOMAIN paths : i <= Len(order) /\ paths[i] = PathJoin(OUT, order[i])
          /\ paths # <<>> => validated = order
          /\ pc \in {"guide", "report", "done"} => Len(paths) = Len(order)
          /\ pc \in {"report", "done"} => Get(files, GuidePath) = GuideLines(order)

\* the filename a declared before and after b: the run validated and wrote a
\* before b, and a holds the content of its second marker
C27_Witness ==
  /\ cmd = "k8s"
  /\ pc = "done"
  /\ MarkerNames(raw) = <<<<"a">>, <<"b">>, <<"a">>>>
  /\ manifests = Entry(<<"a">>, <<"x">>) \o Entry(<<"b">>, <<>>)
  /\ Keys(findings) = <<<<"a">>, <<"b">>>>
  /\ Keys(WrittenPaths) = <<PathJoin(OUT, <<"a">>), PathJoin(OUT, <<"b">>)>>

=============================================================================
